---------------------------- MODULE Spec2Model ----------------------------
(***************************************************************************)
(* Model of the YouTube transcript advisor:                                *)
(*   src/src/transcript_processor.py  (TranscriptProcessor)                *)
(*   src/src/advisor.py               (YouTubeAdvisor)                     *)
(*                                                                         *)
(* Text is a sequence of chunks; a chunk is a TLA+ string holding one      *)
(* character (questions, transcript lines) or a literal piece of a         *)
(* message.  A segment reference (a Python object reference into           *)
(* self.segments) is the position of the segment in the corpus.            *)
(***************************************************************************)
EXTENDS Integers, Sequences, FiniteSets, TLC

VARIABLES
    pc,        \* "start" before YouTubeAdvisor(), "ready" after, "failed" if __init__ raised
    segments,  \* YouTubeAdvisor.segments
    last,      \* outcome of the call in progress (ask / find_relevant_segments)
    file,      \* raw lines of the transcript file given to load_transcript
    loaded,    \* list returned by the most recent load_transcript
    sources,   \* the two files of transcript_dir read by load_all_transcripts
    ingest     \* outcome of the most recent load_all_transcripts

vars == <<pc, segments, last, file, loaded, sources, ingest>>

(***************************************************************************)
(* Bounds                                                                  *)
(***************************************************************************)
MaxSrcLines == 3     \* lines per transcript source at construction
MaxCorpus == 4       \* corpus length when the ranker is exercised directly
MaxTopK == 3         \* top_k values passed to find_relevant_segments directly
MaxLines == 2        \* lines per file when load_transcript is exercised directly
MaxIngestLines == 2  \* lines per source when load_all_transcripts is exercised directly
MaxPromptSegs == 3   \* segments given to create_context_prompt directly
MaxPad == 1          \* whitespace characters around the argument of parse_timestamp

(***************************************************************************)
(* Text helpers (str methods used by the code)                             *)
(***************************************************************************)
\* a missing value (embedding: Optional[np.ndarray] = None)
None == <<>>

Whitespace == {" ", "\t", "\n"}

Digits == {"0", "1", "2", "3", "4", "5", "6", "7", "8", "9"}

\* str.lower() on one character
LowerChar(c) ==
    CASE c = "A" -> "a" [] c = "B" -> "b" [] c = "C" -> "c" [] c = "D" -> "d"
      [] c = "E" -> "e" [] c = "F" -> "f" [] c = "G" -> "g" [] c = "H" -> "h"
      [] c = "I" -> "i" [] c = "J" -> "j" [] c = "K" -> "k" [] c = "L" -> "l"
      [] c = "M" -> "m" [] c = "N" -> "n" [] c = "O" -> "o" [] c = "P" -> "p"
      [] c = "Q" -> "q" [] c = "R" -> "r" [] c = "S" -> "s" [] c = "T" -> "t"
      [] c = "U" -> "u" [] c = "V" -> "v" [] c = "W" -> "w" [] c = "X" -> "x"
      [] c = "Y" -> "y" [] c = "Z" -> "z" [] OTHER -> c

\* str.lower()
Lower(s) == [i \in DOMAIN s |-> LowerChar(s[i])]

\* t in s
Contains(s, t) ==
    \E i \in 1..(Len(s) - Len(t) + 1) : SubSeq(s, i, i + Len(t) - 1) = t

\* number of leading whitespace characters of s
RECURSIVE LeadingWs(_)
LeadingWs(s) ==
    IF s = <<>> \/ Head(s) \notin Whitespace THEN 0 ELSE 1 + LeadingWs(Tail(s))

\* number of trailing whitespace characters of s
RECURSIVE TrailingWs(_)
TrailingWs(s) ==
    IF s = <<>> \/ s[Len(s)] \notin Whitespace THEN 0
    ELSE 1 + TrailingWs(SubSeq(s, 1, Len(s) - 1))

\* str.strip()
Strip(s) ==
    IF LeadingWs(s) = Len(s) THEN <<>>
    ELSE SubSeq(s, LeadingWs(s) + 1, Len(s) - TrailingWs(s))

(***************************************************************************)
(* Collaborators: embedding provider and cosine similarity                 *)
(***************************************************************************)
\* vectors the embedder returns for transcript contents
SegVectors == {<<1, 0>>, <<0, 1>>}

\* vectors the embedder returns for questions
QVectors == {<<1, 0>>, <<1, 1>>, <<-1, 0>>}

\* what embedder.encode does on a question: returns a vector, or raises
QEncodeOutcomes == [ok : {TRUE}, vec : QVectors] \cup [ok : {FALSE}, vec : {<<>>}]

Dot(a, b) == a[1] * b[1] + a[2] * b[2]

Sign(x) == IF x > 0 THEN 1 ELSE IF x < 0 THEN -1 ELSE 0

\* cosine_similarity(q, e)[0][0], represented by sign(c) * c^2 * 4, which is
\* an integer for these vectors and orders and ties exactly as the cosine c
\* does; a zero vector has similarity 0 (sklearn normalises it as it is).
CosineSimilarity(q, e) ==
    IF Dot(q, q) = 0 \/ Dot(e, e) = 0 THEN 0
    ELSE (Sign(Dot(q, e)) * Dot(q, e) * Dot(q, e) * 4) \div (Dot(q, q) * Dot(e, e))


(***************************************************************************)
(* TranscriptProcessor: load_transcript, create_embeddings,                *)
(* load_all_transcripts                                                    *)
(***************************************************************************)
\* "\n".join(lines): the text of a file whose lines are given
RECURSIVE JoinLines(_)
JoinLines(lines) ==
    IF lines = <<>> THEN <<>>
    ELSE IF Len(lines) = 1 THEN lines[1]
    ELSE lines[1] \o <<"\n">> \o JoinLines(Tail(lines))

\* content.split('\n')
RECURSIVE SplitLines(_)
SplitLines(content) ==
    IF \A i \in 1..Len(content) : content[i] # "\n" THEN <<content>>
    ELSE LET i == CHOOSE i \in 1..Len(content) :
                      /\ content[i] = "\n"
                      /\ \A j \in 1..(i - 1) : content[j] # "\n"
         IN  <<SubSeq(content, 1, i - 1)>> \o SplitLines(SubSeq(content, i + 1, Len(content)))

\* \d{2}:\d{2}:\d{2} matches at the start of line
TimestampAtStart(line) ==
    /\ Len(line) >= 8
    /\ \A i \in {1, 2, 4, 5, 7, 8} : line[i] \in Digits
    /\ line[3] = ":"
    /\ line[6] = ":"

\* parse_timestamp: the stripped argument when re.match finds
\* \d{2}:\d{2}:\d{2} at its start, "00:00:00" otherwise
ParseTimestamp(timestamp_str) ==
    LET timestamp == Strip(timestamp_str)
    IN  IF TimestampAtStart(timestamp) THEN timestamp
        ELSE <<"0", "0", ":", "0", "0", ":", "0", "0">>

\* the regular expression with a loose timestamp: (\S+)\s+(.+)
MatchLineAnyStamp(line) ==
    LET visible == {j \in 1..Len(line) : \A i \in 1..j : line[i] \notin Whitespace}
        n       == Cardinality(visible)
        rest    == SubSeq(line, n + 1, Len(line))
        k       == LeadingWs(rest)
    IN  IF n > 0 /\ k > 0 /\ k < Len(rest)
        THEN [matched |-> TRUE, timestamp |-> SubSeq(line, 1, n),
              content |-> SubSeq(rest, k + 1, Len(rest))]
        ELSE [matched |-> FALSE, timestamp |-> <<>>, content |-> <<>>]

\* the regular expression with an optional text: (\d{2}:\d{2}:\d{2})\s*(.*)
MatchLineOptionalText(line) ==
    LET rest == SubSeq(line, 9, Len(line))
        k    == LeadingWs(rest)
    IN  IF TimestampAtStart(line)
        THEN [matched |-> TRUE, timestamp |-> SubSeq(line, 1, 8),
              content |-> SubSeq(rest, k + 1, Len(rest))]
        ELSE [matched |-> FALSE, timestamp |-> <<>>, content |-> <<>>]

\* the regular expression without its \s+
MatchLineNoSeparator(line) ==
    IF TimestampAtStart(line) /\ Len(line) > 8
    THEN [matched |-> TRUE, timestamp |-> SubSeq(line, 1, 8), content |-> SubSeq(line, 9, Len(line))]
    ELSE [matched |-> FALSE, timestamp |-> <<>>, content |-> <<>>]

\* re.match(r'(\d{2}:\d{2}:\d{2})\s+(.+)', line): whether it matched, and groups 1 and 2.
\* \s+ takes the whole run of whitespace after the timestamp and gives its
\* last character back to .+ when nothing follows the run.  A line holds no
\* newline, so .+ runs to the end of the line.
MatchLine(line) ==
    LET rest == SubSeq(line, 9, Len(line))
        k    == LeadingWs(rest)
        no   == [matched |-> FALSE, timestamp |-> <<>>, content |-> <<>>]
    IN  IF ~TimestampAtStart(line) \/ k = 0 THEN no
        ELSE IF k < Len(rest)
        THEN [matched |-> TRUE, timestamp |-> SubSeq(line, 1, 8),
              content |-> SubSeq(rest, k + 1, Len(rest))]
        ELSE IF k >= 2
        THEN [matched |-> TRUE, timestamp |-> SubSeq(line, 1, 8), content |-> <<rest[k]>>]
        ELSE no

\* video_metadata
video_metadata ==
    [v \in {"aprilynne", "hayden"} |->
        IF v = "aprilynne" THEN <<"Improving Video Introductions">>
        ELSE <<"YouTube Storytelling Techniques">>]

\* video_metadata.get(video_id, "Unknown Video")
VideoTitleNoFallback(video_id) ==
    IF video_id \in DOMAIN video_metadata THEN video_metadata[video_id]
    ELSE <<"Unknown Video">>

\* video_metadata.get(video_id, video_id)
VideoTitle(video_id) ==
    IF video_id \in DOMAIN video_metadata THEN video_metadata[video_id]
    ELSE <<video_id>>

\* the body of the loop over lines in load_transcript
RECURSIVE SegmentsOfLines(_, _)
SegmentsOfLines(lines, video_id) ==
    IF lines = <<>> THEN <<>>
    ELSE LET line == Strip(Head(lines))
             m    == MatchLine(line)
             rest == SegmentsOfLines(Tail(lines), video_id)
         IN  IF line = <<>> \/ ~m.matched THEN rest
             ELSE <<[video_id    |-> video_id,
                     video_title |-> VideoTitle(video_id),
                     timestamp   |-> m.timestamp,
                     content     |-> m.content,
                     embedding   |-> None]>> \o rest

\* load_transcript(file_path, video_id); f is the file at file_path: whether
\* it can be read (if not, open raises and the except returns []) and its
\* raw lines
LoadTranscript(f, video_id) ==
    IF ~f.readable THEN <<>>
    ELSE SegmentsOfLines(SplitLines(Strip(JoinLines(f.lines))), video_id)

\* create_embeddings that gives every segment embeddings[0]
CreateEmbeddingsFirstForAll(segs, vectors) ==
    [i \in 1..Len(segs) |-> [segs[i] EXCEPT !.embedding = vectors[1]]]

\* create_embeddings(segments): vectors is what embedder.encode(contents)
\* returns, one vector per content
CreateEmbeddings(segs, vectors) ==
    [i \in 1..Len(segs) |-> [segs[i] EXCEPT !.embedding = vectors[i]]]

\* the loop over transcript_files leaving at the first file that is absent
ParsedSourcesStopAtMissing(fs) ==
    IF ~fs.aprilynne.exists THEN <<>>
    ELSE LoadTranscript(fs.aprilynne, "aprilynne")
         \o (IF fs.hayden.exists THEN LoadTranscript(fs.hayden, "hayden") ELSE <<>>)

\* the loop over transcript_files with hayden.txt listed first
ParsedSourcesHaydenFirst(fs) ==
    (IF fs.hayden.exists THEN LoadTranscript(fs.hayden, "hayden") ELSE <<>>)
    \o (IF fs.aprilynne.exists THEN LoadTranscript(fs.aprilynne, "aprilynne") ELSE <<>>)

\* the segments parsed by the loop over transcript_files
ParsedSources(fs) ==
    (IF fs.aprilynne.exists THEN LoadTranscript(fs.aprilynne, "aprilynne") ELSE <<>>)
    \o (IF fs.hayden.exists THEN LoadTranscript(fs.hayden, "hayden") ELSE <<>>)

\* the load_transcript calls of the loop over transcript_files: one per file
\* that exists
LoadCalls(fs) ==
    (IF fs.aprilynne.exists THEN <<"load_transcript">> ELSE <<>>)
    \o (IF fs.hayden.exists THEN <<"load_transcript">> ELSE <<>>)

\* load_all_transcripts that embeds each source right after it is parsed
LoadAllTranscriptsPerSource(fs, encode) ==
    LET a        == IF fs.aprilynne.exists THEN LoadTranscript(fs.aprilynne, "aprilynne") ELSE <<>>
        h        == IF fs.hayden.exists THEN LoadTranscript(fs.hayden, "hayden") ELSE <<>>
        all      == a \o h
        contents == [i \in 1..Len(all) |-> all[i].content]
        calls    == (IF fs.aprilynne.exists THEN <<"load_transcript">> ELSE <<>>)
                    \o (IF a # <<>> THEN <<"embed">> ELSE <<>>)
                    \o (IF fs.hayden.exists THEN <<"load_transcript">> ELSE <<>>)
                    \o (IF h # <<>> THEN <<"embed">> ELSE <<>>)
    IN  IF all = <<>>
        THEN [raised |-> FALSE, segments |-> <<>>, calls |-> calls, batch |-> <<>>]
        ELSE IF ~encode.ok
        THEN [raised |-> TRUE, segments |-> <<>>, calls |-> calls, batch |-> contents]
        ELSE [raised |-> FALSE, segments |-> CreateEmbeddings(all, encode.vecs),
              calls |-> calls, batch |-> contents]

\* load_all_transcripts that catches the failure of encode and returns the
\* segments it parsed
LoadAllTranscriptsSwallow(fs, encode) ==
    LET all_segments == ParsedSources(fs)
        loads        == LoadCalls(fs)
        contents     == [i \in 1..Len(all_segments) |-> all_segments[i].content]
    IN  IF all_segments = <<>>
        THEN [raised |-> FALSE, segments |-> <<>>, calls |-> loads, batch |-> <<>>]
        ELSE IF ~encode.ok
        THEN [raised |-> FALSE, segments |-> all_segments, calls |-> loads \o <<"embed">>,
              batch |-> contents]
        ELSE [raised |-> FALSE, segments |-> CreateEmbeddings(all_segments, encode.vecs),
              calls |-> loads \o <<"embed">>, batch |-> contents]

\* load_all_transcripts(); fs gives the two files of transcript_dir, encode is
\* what the batched embedder.encode does: returns a list of vectors, or raises
\* calls lists the calls made, in order; batch is the list handed to encode.
LoadAllTranscripts(fs, encode) ==
    LET all_segments == ParsedSources(fs)
        loads        == LoadCalls(fs)
        contents     == [i \in 1..Len(all_segments) |-> all_segments[i].content]
    IN  IF all_segments = <<>>
        THEN [raised |-> FALSE, segments |-> <<>>, calls |-> loads, batch |-> <<>>]
        ELSE IF ~encode.ok
        THEN [raised |-> TRUE, segments |-> <<>>, calls |-> loads \o <<"embed">>,
              batch |-> contents]
        ELSE [raised |-> FALSE, segments |-> CreateEmbeddings(all_segments, encode.vecs),
              calls |-> loads \o <<"embed">>, batch |-> contents]

(***************************************************************************)
(* YouTubeAdvisor.find_relevant_segments                                   *)
(***************************************************************************)
DefaultTopK == 5

\* out_of_scope_terms
out_of_scope_terms ==
    { <<"a", "d", " ", "s", "p", "e", "n", "d">>,
      <<"a", "d", "v", "e", "r", "t", "i", "s", "i", "n", "g">>,
      <<"m", "o", "n", "e", "t", "i", "z", "a", "t", "i", "o", "n">>,
      <<"r", "e", "v", "e", "n", "u", "e">>,
      <<"a", "n", "a", "l", "y", "t", "i", "c", "s">> }

\* any(term in question for term in out_of_scope_terms): the case-sensitive slip
IsOutOfScopeCaseSensitive(question) ==
    \E term \in out_of_scope_terms : Contains(question, term)

\* any(term in question.lower() for term in out_of_scope_terms)
IsOutOfScope(question) ==
    \E term \in out_of_scope_terms : Contains(Lower(question), term)

\* the (similarity, segment) pairs with a zero score for a missing embedding
SimilaritiesNoneAsZero(segs, qv) ==
    [i \in 1..Len(segs) |->
        IF segs[i].embedding = None THEN <<0, i>>
        ELSE <<CosineSimilarity(qv, segs[i].embedding), i>>]

\* similarities: one (similarity, segment) pair per segment that has an
\* embedding, in corpus order
Similarities(segs, qv) ==
    LET idx == SelectSeq([i \in 1..Len(segs) |-> i],
                         LAMBDA i : segs[i].embedding # None)
    IN  [k \in 1..Len(idx) |->
            <<CosineSimilarity(qv, segs[idx[k]].embedding), idx[k]>>]

\* places x before the entries it ties with (an unstable sort)
InsertBeforeTies(sorted, x) ==
    LET k == Cardinality({j \in 1..Len(sorted) : sorted[j][1] > x[1]})
    IN  SubSeq(sorted, 1, k) \o <<x>> \o SubSeq(sorted, k + 1, Len(sorted))

\* places x after every entry whose similarity is >= x's: the entries that tie
\* keep the order in which they were inserted
InsertDesc(sorted, x) ==
    LET k == Cardinality({j \in 1..Len(sorted) : sorted[j][1] >= x[1]})
    IN  SubSeq(sorted, 1, k) \o <<x>> \o SubSeq(sorted, k + 1, Len(sorted))

\* similarities.sort(key=lambda x: x[0], reverse=True), with ties reordered
RECURSIVE SortUnstable(_)
SortUnstable(sims) ==
    IF sims = <<>> THEN <<>>
    ELSE InsertBeforeTies(SortUnstable(SubSeq(sims, 1, Len(sims) - 1)), sims[Len(sims)])

\* similarities.sort(key=lambda x: x[0], reverse=True): stable, descending
RECURSIVE SortBySimilarity(_)
SortBySimilarity(sims) ==
    IF sims = <<>> THEN <<>>
    ELSE InsertDesc(SortBySimilarity(SubSeq(sims, 1, Len(sims) - 1)), sims[Len(sims)])

\* similarities[:top_k + 1]
TakeOneMore(sims, top_k) ==
    SubSeq(sims, 1, IF top_k + 1 < Len(sims) THEN top_k + 1 ELSE Len(sims))

\* similarities[:top_k]   (top_k >= 1)
Take(sims, top_k) ==
    SubSeq(sims, 1, IF top_k < Len(sims) THEN top_k ELSE Len(sims))

\* description of the exception the embedder raises
EmbedError == <<"embedding model failed">>

\* find_relevant_segments that evaluates the keyword gate before encode
FindRelevantSegmentsGateFirst(segs, question, top_k, emb) ==
    IF segs = <<>> \/ IsOutOfScope(question)
    THEN [raised |-> FALSE, error |-> <<>>, result |-> <<>>, calls |-> <<>>,
          scored |-> 0, corpus |-> segs]
    ELSE IF ~emb.ok
    THEN [raised |-> TRUE, error |-> EmbedError, result |-> <<>>, calls |-> <<"embed">>,
          scored |-> 0, corpus |-> segs]
    ELSE LET sorted == SortBySimilarity(Similarities(segs, emb.vec))
             top    == Take(sorted, top_k)
         IN  [raised |-> FALSE, error |-> <<>>,
              result |-> [k \in 1..Len(top) |-> top[k][2]],
              calls  |-> <<"embed">>, scored |-> Len(sorted),
              corpus |-> segs]

\* find_relevant_segments that sorts self.segments in place
FindRelevantSegmentsSortsCorpus(segs, question, top_k, emb) ==
    IF segs = <<>>
    THEN [raised |-> FALSE, error |-> <<>>, result |-> <<>>, calls |-> <<>>, scored |-> 0, corpus |-> segs]
    ELSE IF ~emb.ok
    THEN [raised |-> TRUE, error |-> EmbedError, result |-> <<>>, calls |-> <<"embed">>,
          scored |-> 0, corpus |-> segs]
    ELSE LET sorted == SortBySimilarity(Similarities(segs, emb.vec))
             top    == Take(sorted, top_k)
         IN  [raised |-> FALSE, error |-> <<>>,
              result |-> IF IsOutOfScope(question) THEN <<>>
                         ELSE [k \in 1..Len(top) |-> k],
              calls  |-> <<"embed">>, scored |-> Len(sorted),
              corpus |-> [k \in 1..Len(sorted) |-> segs[sorted[k][2]]]]

\* find_relevant_segments that catches the failure of encode and returns []
FindRelevantSegmentsSwallow(segs, question, top_k, emb) ==
    IF segs = <<>>
    THEN [raised |-> FALSE, error |-> <<>>, result |-> <<>>, calls |-> <<>>, scored |-> 0, corpus |-> segs]
    ELSE IF ~emb.ok
    THEN [raised |-> FALSE, error |-> <<>>, result |-> <<>>, calls |-> <<"embed">>,
          scored |-> 0, corpus |-> segs]
    ELSE LET sorted == SortBySimilarity(Similarities(segs, emb.vec))
             top    == Take(sorted, top_k)
         IN  [raised |-> FALSE, error |-> <<>>,
              result |-> IF IsOutOfScope(question) THEN <<>>
                         ELSE [k \in 1..Len(top) |-> top[k][2]],
              calls  |-> <<"embed">>, scored |-> Len(sorted),
              corpus |-> segs]

\* find_relevant_segments without the empty-corpus return
FindRelevantSegmentsNoEmptyCheck(segs, question, top_k, emb) ==
    IF ~emb.ok
    THEN [raised |-> TRUE, error |-> EmbedError, result |-> <<>>, calls |-> <<"embed">>,
          scored |-> 0, corpus |-> segs]
    ELSE LET sorted == SortBySimilarity(Similarities(segs, emb.vec))
             top    == Take(sorted, top_k)
         IN  [raised |-> FALSE, error |-> <<>>,
              result |-> IF IsOutOfScope(question) THEN <<>>
                         ELSE [k \in 1..Len(top) |-> top[k][2]],
              calls  |-> <<"embed">>, scored |-> Len(sorted),
              corpus |-> segs]

\* find_relevant_segments(question, top_k) over self.segments = segs, where emb
\* is what embedder.encode([question]) does: returns a vector, or raises.
\* result lists the returned segments by their position in segs.
\* scored is the number of cosine_similarity calls made.
FindRelevantSegments(segs, question, top_k, emb) ==
    IF segs = <<>>
    THEN [raised |-> FALSE, error |-> <<>>, result |-> <<>>, calls |-> <<>>, scored |-> 0, corpus |-> segs]
    ELSE IF ~emb.ok
    THEN [raised |-> TRUE, error |-> EmbedError, result |-> <<>>, calls |-> <<"embed">>,
          scored |-> 0, corpus |-> segs]
    ELSE LET sorted == SortBySimilarity(Similarities(segs, emb.vec))
             top    == Take(sorted, top_k)
         IN  [raised |-> FALSE, error |-> <<>>,
              result |-> IF IsOutOfScope(question) THEN <<>>
                         ELSE [k \in 1..Len(top) |-> top[k][2]],
              calls  |-> <<"embed">>, scored |-> Len(sorted),
              corpus |-> segs]

(***************************************************************************)
(* YouTubeAdvisor.create_context_prompt and YouTubeAdvisor.ask             *)
(***************************************************************************)
\* the context block without the timestamps
RECURSIVE ContextBlockNoTimestamp(_)
ContextBlockNoTimestamp(segs) ==
    IF segs = <<>> THEN <<>>
    ELSE <<"Video: ">> \o Head(segs).video_title \o <<"\n">>
         \o <<"Content: ">> \o Head(segs).content \o <<"\n\n">>
         \o ContextBlockNoTimestamp(Tail(segs))

\* context: one Video / Timestamp / Content entry per segment, in order
RECURSIVE ContextBlock(_)
ContextBlock(segs) ==
    IF segs = <<>> THEN <<>>
    ELSE <<"Video: ">> \o Head(segs).video_title \o <<"\n">>
         \o <<"Timestamp: ">> \o Head(segs).timestamp \o <<"\n">>
         \o <<"Content: ">> \o Head(segs).content \o <<"\n\n">>
         \o ContextBlock(Tail(segs))

\* create_context_prompt(question, relevant_segments)
CreateContextPrompt(question, relevant_segments) ==
    <<"\nYou are a YouTube growth advisor. Answer the user's question based ONLY on the provided transcript context.\n\n">>
    \o <<"TRANSCRIPT CONTEXT:\n\n">> \o ContextBlock(relevant_segments)
    \o <<"\n\nUSER QUESTION: ">> \o question
    \o <<"\n\nINSTRUCTIONS:\n1. Provide actionable recommendations based only on the transcript content\n2. Include citations for each recommendation using this format: ">>
    \o <<"[source: \"", "Video Title\" t=HH:MM:SS]">>
    \o <<"\n3. If the transcripts don't contain enough information, say so clearly\n4. Be specific and practical - avoid generic advice\n5. Group related recommendations together\n6. Make sure to mention key terms from the question in your response\n7. Reference the video sources by name when providing advice\n\nANSWER:\n">>

\* the literal returned when no segment is relevant
FallbackMessage ==
    <<"I ", "don't have enough information",
      " in the provided transcripts to answer your question. ",
      "Please ask about video introductions or storytelling techniques, which are covered in the available content.">>

\* an error message that drops the exception text
ErrorMessageGeneric(e) ==
    <<"Sorry, I encountered an error while processing your question">>

\* f"Sorry, I encountered an error while processing your question: {e}"
ErrorMessage(e) ==
    <<"Sorry, I encountered an error while processing your question: ">> \o e

\* texts the chat completion returns, and descriptions of the errors it raises
GenTexts ==
    { <<"Keep intros short ", "[source: \"", "Improving Video Introductions", "\" t=", "00:01:15", "]">>,
      <<"Use a three-act structure.">> }

GenErrors == { <<"Connection error.">>, <<"Rate limit exceeded">> }

\* what client.chat.completions.create does: returns a text or raises
GenOutcomes ==
    [ok : {TRUE}, text : GenTexts] \cup [ok : {FALSE}, text : GenErrors]

\* ask that ranks with top_k = 3
AskTopKThree(segs, question, emb, gen) ==
    LET r      == FindRelevantSegments(segs, question, 3, emb)
        prompt == CreateContextPrompt(question, [k \in 1..Len(r.result) |-> segs[r.result[k]]])
    IN  IF r.raised
        THEN [raised |-> TRUE, error |-> r.error, value |-> <<>>,
              ranked |-> <<>>, calls |-> r.calls, prompt |-> <<>>,
              scored |-> r.scored, corpus |-> r.corpus]
        ELSE IF r.result = <<>>
        THEN [raised |-> FALSE, error |-> <<>>, value |-> FallbackMessage,
              ranked |-> r.result, calls |-> r.calls, prompt |-> <<>>,
              scored |-> r.scored, corpus |-> r.corpus]
        ELSE [raised |-> FALSE, error |-> <<>>,
              value  |-> IF gen.ok THEN gen.text ELSE ErrorMessage(gen.text),
              ranked |-> r.result, calls |-> r.calls \o <<"generate">>,
              prompt |-> prompt, scored |-> r.scored, corpus |-> r.corpus]

\* ask that calls the generator a second time when it failed
AskRetriesGenerator(segs, question, emb, gen) ==
    LET r      == FindRelevantSegments(segs, question, DefaultTopK, emb)
        prompt == CreateContextPrompt(question, [k \in 1..Len(r.result) |-> segs[r.result[k]]])
    IN  IF r.raised
        THEN [raised |-> TRUE, error |-> r.error, value |-> <<>>,
              ranked |-> <<>>, calls |-> r.calls, prompt |-> <<>>,
              scored |-> r.scored, corpus |-> r.corpus]
        ELSE IF r.result = <<>>
        THEN [raised |-> FALSE, error |-> <<>>, value |-> FallbackMessage,
              ranked |-> r.result, calls |-> r.calls, prompt |-> <<>>,
              scored |-> r.scored, corpus |-> r.corpus]
        ELSE [raised |-> FALSE, error |-> <<>>,
              value  |-> IF gen.ok THEN gen.text ELSE ErrorMessage(gen.text),
              ranked |-> r.result,
              calls  |-> r.calls \o (IF gen.ok THEN <<"generate">>
                                     ELSE <<"generate", "generate">>),
              prompt |-> prompt, scored |-> r.scored, corpus |-> r.corpus]

\* ask that returns the generated text with a line added
AskAppendsToAnswer(segs, question, emb, gen) ==
    LET r      == FindRelevantSegments(segs, question, DefaultTopK, emb)
        prompt == CreateContextPrompt(question, [k \in 1..Len(r.result) |-> segs[r.result[k]]])
    IN  IF r.raised
        THEN [raised |-> TRUE, error |-> r.error, value |-> <<>>,
              ranked |-> <<>>, calls |-> r.calls, prompt |-> <<>>, scored |-> r.scored, corpus |-> r.corpus]
        ELSE IF r.result = <<>>
        THEN [raised |-> FALSE, error |-> <<>>, value |-> FallbackMessage,
              ranked |-> r.result, calls |-> r.calls, prompt |-> <<>>,
              scored |-> r.scored, corpus |-> r.corpus]
        ELSE [raised |-> FALSE, error |-> <<>>,
              value  |-> IF gen.ok THEN gen.text \o <<"\n(generated)">>
                         ELSE ErrorMessage(gen.text),
              ranked |-> r.result, calls |-> r.calls \o <<"generate">>,
              prompt |-> prompt, scored |-> r.scored, corpus |-> r.corpus]

\* ask that sends an empty ranking to the generator as well
AskAlwaysGenerates(segs, question, emb, gen) ==
    LET r      == FindRelevantSegments(segs, question, DefaultTopK, emb)
        prompt == CreateContextPrompt(question, [k \in 1..Len(r.result) |-> segs[r.result[k]]])
    IN  IF r.raised
        THEN [raised |-> TRUE, error |-> r.error, value |-> <<>>,
              ranked |-> <<>>, calls |-> r.calls, prompt |-> <<>>, scored |-> r.scored, corpus |-> r.corpus]
        ELSE [raised |-> FALSE, error |-> <<>>,
              value  |-> IF gen.ok THEN gen.text ELSE ErrorMessage(gen.text),
              ranked |-> r.result, calls |-> r.calls \o <<"generate">>,
              prompt |-> prompt, scored |-> r.scored, corpus |-> r.corpus]

\* ask(question) over self.segments = segs; emb is what the embedder does on
\* the question and gen what the chat completion does if it is called.
\* raised: the call ended in an exception (error) instead of returning value.
Ask(segs, question, emb, gen) ==
    LET r      == FindRelevantSegments(segs, question, DefaultTopK, emb)
        prompt == CreateContextPrompt(question, [k \in 1..Len(r.result) |-> segs[r.result[k]]])
    IN  IF r.raised
        THEN [raised |-> TRUE, error |-> r.error, value |-> <<>>,
              ranked |-> <<>>, calls |-> r.calls, prompt |-> <<>>, scored |-> r.scored, corpus |-> r.corpus]
        ELSE IF r.result = <<>>
        THEN [raised |-> FALSE, error |-> <<>>, value |-> FallbackMessage,
              ranked |-> r.result, calls |-> r.calls, prompt |-> <<>>,
              scored |-> r.scored, corpus |-> r.corpus]
        ELSE [raised |-> FALSE, error |-> <<>>,
              value  |-> IF gen.ok THEN gen.text ELSE ErrorMessage(gen.text),
              ranked |-> r.result, calls |-> r.calls \o <<"generate">>,
              prompt |-> prompt, scored |-> r.scored, corpus |-> r.corpus]

(***************************************************************************)
(* Inputs                                                                  *)
(***************************************************************************)
SeqsUpTo(S, n) == UNION {[1..k -> S] : k \in 0..n}

\* questions: "ad spend", "My REVENUE?", "ADVERTISING", "intro", "ad  spend"
Questions ==
    { <<"a", "d", " ", "s", "p", "e", "n", "d">>,
      <<"M", "y", " ", "R", "E", "V", "E", "N", "U", "E", "?">>,
      <<"A", "D", "V", "E", "R", "T", "I", "S", "I", "N", "G">>,
      <<"i", "n", "t", "r", "o">>,
      <<"a", "d", " ", " ", "s", "p", "e", "n", "d">> }

\* lines of the transcript sources read at construction:
\* "00:01:15 a" and "intro"
SrcLines ==
    { <<"0", "0", ":", "0", "1", ":", "1", "5", " ", "a">>,
      <<"i", "n", "t", "r", "o">> }

\* a transcript source: absent, present but unreadable, or readable lines
SrcFiles ==
    { [exists |-> FALSE, readable |-> FALSE, lines |-> <<>>],
      [exists |-> TRUE, readable |-> FALSE, lines |-> <<>>] }
    \cup [exists : {TRUE}, readable : {TRUE}, lines : SeqsUpTo(SrcLines, MaxSrcLines)]

\* lines of the sources given to load_all_transcripts directly:
\* "00:01:15 a", "00:02:30 b" and "intro"
IngestLines ==
    { <<"0", "0", ":", "0", "1", ":", "1", "5", " ", "a">>,
      <<"0", "0", ":", "0", "2", ":", "3", "0", " ", "b">>,
      <<"i", "n", "t", "r", "o">> }

IngestFiles ==
    { [exists |-> FALSE, readable |-> FALSE, lines |-> <<>>],
      [exists |-> TRUE, readable |-> FALSE, lines |-> <<>>] }
    \cup [exists : {TRUE}, readable : {TRUE}, lines : SeqsUpTo(IngestLines, MaxIngestLines)]

\* arguments of parse_timestamp: "12:34:56", "1:34:56", "12:34:5", "ab" and
\* "", followed by nothing, "x" or " x", with whitespace around
StampInputs ==
    { lead \o core \o tail \o trail :
        lead \in SeqsUpTo(Whitespace, MaxPad),
        core \in { <<"1", "2", ":", "3", "4", ":", "5", "6">>,
                   <<"1", ":", "3", "4", ":", "5", "6">>,
                   <<"1", "2", ":", "3", "4", ":", "5">>,
                   <<"a", "b">>,
                   <<>> },
        tail \in { <<>>, <<"x">>, <<" ", "x">> },
        trail \in SeqsUpTo(Whitespace, MaxPad) }

\* the corpus whose segments are given to create_context_prompt directly
PromptCorpus ==
    << [video_id |-> "aprilynne", video_title |-> VideoTitle("aprilynne"),
        timestamp |-> <<"00:01:15">>, content |-> <<"keep intros short">>,
        embedding |-> <<1, 0>>],
       [video_id |-> "aprilynne", video_title |-> VideoTitle("aprilynne"),
        timestamp |-> <<"00:02:15">>, content |-> <<"start with a hook">>,
        embedding |-> <<0, 1>>],
       [video_id |-> "hayden", video_title |-> VideoTitle("hayden"),
        timestamp |-> <<"00:00:45">>, content |-> <<"use three acts">>,
        embedding |-> <<1, 0>>] >>

\* lines given to load_transcript directly: optional indentation, a timestamp
\* or something short of one, a separator, a text
ParseLines ==
    { lead \o stamp \o sep \o text :
        lead  \in { <<>>, <<" ">> },
        stamp \in { <<>>,
                    <<"1", "2", ":", "3", "4", ":", "5", "6">>,
                    <<"1", ":", "3", "4", ":", "5", "6">> },
        sep   \in { <<>>, <<" ">>, <<" ", "\t">> },
        text  \in { <<>>, <<"a">>, <<"a", " ", "b", " ">> } }

ParseFiles ==
    [exists : {TRUE}, readable : BOOLEAN, lines : SeqsUpTo(ParseLines, MaxLines)]

\* corpora given to the ranker directly: every segment with or without an
\* embedding (TranscriptSegment.embedding is Optional and defaults to None)
RankCorpora ==
    { [i \in 1..Len(es) |->
          [video_id    |-> "aprilynne",
           video_title |-> VideoTitle("aprilynne"),
           timestamp   |-> <<"0", "0", ":", "0", "1", ":", "1", "5">>,
           content     |-> <<"a">>,
           embedding   |-> es[i]]] :
      es \in SeqsUpTo(SegVectors \cup {None}, MaxCorpus) }

(***************************************************************************)
(* State machine                                                           *)
(***************************************************************************)
NoGen == [ok |-> FALSE, text |-> <<>>]

NoCall ==
    [op |-> "none", question |-> <<>>, top_k |-> 0, qv |-> <<>>, gen |-> NoGen,
     raised |-> FALSE, error |-> <<>>, value |-> <<>>, ranked |-> <<>>,
     calls |-> <<>>, prompt |-> <<>>, scored |-> 0]

Called(l, who) == \E i \in 1..Len(l.calls) : l.calls[i] = who

\* no file
NoFile == [exists |-> FALSE, readable |-> FALSE, lines |-> <<>>]

NoSources == [aprilynne |-> NoFile, hayden |-> NoFile]

NoEncode == [ok |-> FALSE, vecs |-> <<>>]

NoIngest ==
    [op |-> "none", raised |-> FALSE, segments |-> <<>>, calls |-> <<>>,
     batch |-> <<>>, encode |-> NoEncode]

\* what the batched embedder.encode does on n contents: returns n vectors, or
\* raises
EncodeOutcomes(n) == [ok : {TRUE}, vecs : [1..n -> SegVectors]] \cup {NoEncode}

Init ==
    /\ pc = "start"
    /\ segments = <<>>
    /\ last = NoCall
    /\ file = NoFile
    /\ loaded = <<>>
    /\ sources = NoSources
    /\ ingest = NoIngest

\* YouTubeAdvisor.__init__: builds the corpus, or raises
Construct ==
    /\ pc = "start"
    /\ \E fs \in [aprilynne : SrcFiles, hayden : SrcFiles] :
       \E encode \in EncodeOutcomes(Len(ParsedSources(fs))) :
          LET r      == LoadAllTranscripts(fs, encode)
              embeds == SelectSeq(r.calls, LAMBDA c : c = "embed")
          IN  /\ pc' = IF r.raised THEN "failed" ELSE "ready"
              /\ segments' = r.segments
              /\ ingest' = [op |-> "construct", raised |-> r.raised,
                            segments |-> r.segments, calls |-> embeds,
                            batch |-> r.batch,
                            encode |-> IF embeds = <<>> THEN NoEncode ELSE encode]
    /\ UNCHANGED <<last, file, loaded, sources>>

\* advisor.ask(question)
AskCall ==
    /\ pc = "ready"
    /\ last.op = "none"
    /\ \E question \in Questions, emb \in QEncodeOutcomes, gen \in GenOutcomes :
          LET r == Ask(segments, question, emb, gen)
          IN  /\ last' = [op |-> "ask", question |-> question, top_k |-> DefaultTopK,
                       qv |-> IF r.calls = <<>> THEN <<>> ELSE emb.vec,
                       gen |-> IF Len(r.calls) = 2 THEN gen ELSE NoGen,
                       raised |-> r.raised, error |-> r.error, value |-> r.value,
                       ranked |-> r.ranked, calls |-> r.calls, prompt |-> r.prompt,
                       scored |-> r.scored]
              /\ segments' = r.corpus
    /\ UNCHANGED <<pc, file, loaded, sources, ingest>>

\* advisor.find_relevant_segments(question, top_k)
FindCall ==
    /\ pc = "ready"
    /\ last.op = "none"
    /\ \E question \in Questions, top_k \in 1..MaxTopK, emb \in QEncodeOutcomes :
          LET r == FindRelevantSegments(segments, question, top_k, emb)
          IN  /\ last' = [op |-> "find", question |-> question, top_k |-> top_k,
                       qv |-> IF r.calls = <<>> THEN <<>> ELSE emb.vec,
                       gen |-> NoGen,
                       raised |-> r.raised, error |-> r.error, value |-> <<>>,
                       ranked |-> r.result, calls |-> r.calls, prompt |-> <<>>,
                       scored |-> r.scored]
              /\ segments' = r.corpus
    /\ UNCHANGED <<pc, file, loaded, sources, ingest>>

\* the caller has taken the outcome of the call; the advisor is idle again
Done ==
    /\ last.op # "none"
    /\ last' = NoCall
    /\ UNCHANGED <<pc, segments, file, loaded, sources, ingest>>

Next == Construct \/ AskCall \/ FindCall \/ Done

Spec == Init /\ [][Next]_vars

\* the ranker over any corpus
InitRank ==
    /\ pc = "ready"
    /\ segments \in RankCorpora
    /\ last = NoCall
    /\ file = NoFile
    /\ loaded = <<>>
    /\ sources = NoSources
    /\ ingest = NoIngest

NextRank == FindCall \/ Done

SpecRank == InitRank /\ [][NextRank]_vars

\* processor.load_transcript(file_path, video_id) over any file
InitParse ==
    /\ pc = "parse"
    /\ segments = <<>>
    /\ last = NoCall
    /\ file \in ParseFiles
    /\ loaded = <<>>
    /\ sources = NoSources
    /\ ingest = NoIngest

LoadTranscriptCall ==
    /\ pc = "parse"
    /\ \E video_id \in {"aprilynne", "hayden", "vid1"} :
          loaded' = LoadTranscript(file, video_id)
    /\ pc' = "parsed"
    /\ UNCHANGED <<segments, last, file, sources, ingest>>

NextParse == LoadTranscriptCall

SpecParse == InitParse /\ [][NextParse]_vars

\* processor.load_all_transcripts() over any two sources
InitIngest ==
    /\ pc = "ingest"
    /\ segments = <<>>
    /\ last = NoCall
    /\ file = NoFile
    /\ loaded = <<>>
    /\ sources = NoSources
    /\ ingest = NoIngest

LoadAllCall ==
    /\ pc = "ingest"
    /\ \E fs \in [aprilynne : IngestFiles, hayden : IngestFiles] :
       \E encode \in EncodeOutcomes(Len(ParsedSources(fs))) :
          LET r == LoadAllTranscripts(fs, encode)
          IN  /\ sources' = fs
              /\ ingest' = [op |-> "load_all", raised |-> r.raised,
                            segments |-> r.segments, calls |-> r.calls,
                            batch |-> r.batch,
                            encode |-> IF r.batch = <<>> THEN NoEncode ELSE encode]
    /\ pc' = "ingested"
    /\ UNCHANGED <<segments, last, file, loaded>>

NextIngest == LoadAllCall

SpecIngest == InitIngest /\ [][NextIngest]_vars

\* advisor.create_context_prompt(question, relevant_segments) over any list of
\* segments of the corpus
InitPrompt ==
    /\ pc = "ready"
    /\ segments = PromptCorpus
    /\ last = NoCall
    /\ file = NoFile
    /\ loaded = <<>>
    /\ sources = NoSources
    /\ ingest = NoIngest

PromptCall ==
    /\ pc = "ready"
    /\ last.op = "none"
    /\ \E question \in Questions, refs \in SeqsUpTo(1..Len(segments), MaxPromptSegs) :
          last' = [NoCall EXCEPT
                      !.op = "prompt", !.question = question, !.ranked = refs,
                      !.prompt = CreateContextPrompt(question,
                                    [k \in 1..Len(refs) |-> segments[refs[k]]])]
    /\ UNCHANGED <<pc, segments, file, loaded, sources, ingest>>

NextPrompt == PromptCall \/ Done

SpecPrompt == InitPrompt /\ [][NextPrompt]_vars

\* processor.parse_timestamp(timestamp_str) over any argument; the argument
\* is kept in last.question and the string returned in last.value
InitStamp ==
    /\ pc = "stamp"
    /\ segments = <<>>
    /\ \E timestamp_str \in StampInputs :
          last = [NoCall EXCEPT !.question = timestamp_str]
    /\ file = NoFile
    /\ loaded = <<>>
    /\ sources = NoSources
    /\ ingest = NoIngest

ParseTimestampCall ==
    /\ pc = "stamp"
    /\ last' = [last EXCEPT !.op = "parse_timestamp",
                            !.value = ParseTimestamp(last.question)]
    /\ pc' = "stamped"
    /\ UNCHANGED <<segments, file, loaded, sources, ingest>>

NextStamp == ParseTimestampCall

SpecStamp == InitStamp /\ [][NextStamp]_vars

(***************************************************************************)
(* Properties                                                              *)
(***************************************************************************)
\* the question holds an out-of-scope keyword, in any letter case
HasKeyword(question) ==
    \E term \in out_of_scope_terms :
        \E i \in 0..(Len(question) - Len(term)) :
            \A j \in 1..Len(term) : LowerChar(question[i + j]) = term[j]

\* positions of the corpus segments that have an embedding
Embedded == {i \in 1..Len(segments) : segments[i].embedding # None}

\* similarity of the corpus segment at position i to the question of the call
SimOf(i) == CosineSimilarity(last.qv, segments[i].embedding)

Min(a, b) == IF a < b THEN a ELSE b

\* a call has returned (it did not end in an exception)
Returned(op) == last.op = op /\ ~last.raised

\* C1: every call to ask returns a string; no call to ask ends in an
\* exception, whatever the embedder and the generator do.
AskNeverRaises == last.op = "ask" => ~last.raised

\* C2: when the ranking inside ask is empty, ask returns the fixed fallback
\* message, which contains "don't have enough information", and the generator
\* is not called.
AskFallbackWithoutGenerator ==
    (Returned("ask") /\ last.ranked = <<>>) =>
        /\ last.value = FallbackMessage
        /\ Contains(last.value, <<"don't have enough information">>)
        /\ ~Called(last, "generate")

\* an out-of-scope question was asked over a non-empty corpus
AskFallbackWitness ==
    /\ Returned("ask")
    /\ segments # <<>>
    /\ HasKeyword(last.question)
    /\ last.ranked = <<>>
    /\ last.calls = <<"embed">>

\* C3: when the generator raises while ask handles a question with a
\* non-empty ranking, ask returns (does not raise) a string that contains the
\* description of the error.
AskGeneratorFailureReturnsError ==
    (last.op = "ask" /\ Called(last, "generate") /\ ~last.gen.ok) =>
        /\ ~last.raised
        /\ last.ranked # <<>>
        /\ Contains(last.value, last.gen.text)

\* the generator raised during an ask with a non-empty ranking
AskGeneratorFailureWitness ==
    /\ last.op = "ask"
    /\ last.ranked # <<>>
    /\ Called(last, "generate")
    /\ last.gen \in [ok : {FALSE}, text : GenErrors]

\* C4: find_relevant_segments returns at most top_k segments, each of them a
\* segment of the corpus.
FindAtMostTopKOfCorpus ==
    Returned("find") =>
        /\ Len(last.ranked) <= last.top_k
        /\ \A k \in 1..Len(last.ranked) : last.ranked[k] \in 1..Len(segments)

\* the corpus had more scored segments than top_k and top_k were returned
FindTruncatedWitness ==
    /\ Returned("find")
    /\ Cardinality(Embedded) > last.top_k
    /\ Len(last.ranked) = last.top_k

\* C5: a question with an out-of-scope keyword (in any letter case) gets the
\* empty list whatever the similarities are; a question without one gets a
\* non-empty list whenever some segment has an embedding.
GateEmptiesExactlyOnKeyword ==
    Returned("find") =>
        /\ HasKeyword(last.question) => last.ranked = <<>>
        /\ (~HasKeyword(last.question) /\ Embedded # {}) => last.ranked # <<>>

\* a question with an upper-case keyword got nothing although a segment has
\* the highest possible similarity to it
GateWitness ==
    /\ Returned("find")
    /\ HasKeyword(last.question)
    /\ ~IsOutOfScopeCaseSensitive(last.question)
    /\ last.calls = <<"embed">>
    /\ \E i \in Embedded : SimOf(i) = 4
    /\ last.ranked = <<>>

\* C6: over an empty corpus find_relevant_segments returns the empty list and
\* does not call the embedder.
EmptyCorpusNoEmbedding ==
    (last.op = "find" /\ segments = <<>>) =>
        /\ ~last.raised
        /\ last.ranked = <<>>
        /\ ~Called(last, "embed")

\* find_relevant_segments was called over the empty corpus
EmptyCorpusWitness ==
    /\ last.op = "find"
    /\ segments = <<>>

\* C7: the returned list is in non-increasing order of similarity, segments
\* of equal similarity in corpus order, and it is a prefix of that ordering:
\* no scored segment left out ranks before a returned one.
RankedOrderStable ==
    Returned("find") =>
        /\ \A a, b \in 1..Len(last.ranked) :
              a < b =>
                 \/ SimOf(last.ranked[a]) > SimOf(last.ranked[b])
                 \/ /\ SimOf(last.ranked[a]) = SimOf(last.ranked[b])
                    /\ last.ranked[a] < last.ranked[b]
        /\ \A a \in 1..Len(last.ranked) :
              \A j \in Embedded \ {last.ranked[k] : k \in 1..Len(last.ranked)} :
                 \/ SimOf(last.ranked[a]) > SimOf(j)
                 \/ /\ SimOf(last.ranked[a]) = SimOf(j)
                    /\ last.ranked[a] < j

\* a returned list with a tie and a strict drop, cut short by top_k
RankedOrderWitness ==
    /\ Returned("find")
    /\ Len(last.ranked) < Cardinality(Embedded)
    /\ \E a, b, c \in 1..Len(last.ranked) :
          /\ a < b /\ b < c
          /\ SimOf(last.ranked[a]) = SimOf(last.ranked[b])
          /\ SimOf(last.ranked[b]) > SimOf(last.ranked[c])

\* C8: for a question without an out-of-scope keyword, exactly
\* min(top_k, n) segments are returned, n the number of segments with an
\* embedding, however low the similarities; no segment without an embedding
\* is returned.
NoSimilarityFloor ==
    (Returned("find") /\ ~HasKeyword(last.question)) =>
        /\ Len(last.ranked) = Min(last.top_k, Cardinality(Embedded))
        /\ \A k \in 1..Len(last.ranked) : last.ranked[k] \in Embedded

\* a segment of negative similarity was returned from a corpus that also
\* holds a segment without an embedding
NoSimilarityFloorWitness ==
    /\ Returned("find")
    /\ ~HasKeyword(last.question)
    /\ Embedded # 1..Len(segments)
    /\ Len(last.ranked) = Cardinality(Embedded)
    /\ \E k \in 1..Len(last.ranked) : SimOf(last.ranked[k]) < 0

\* s is two digits, colon, two digits, colon, two digits
IsStamp(s) ==
    /\ Len(s) = 8
    /\ s[3] = ":" /\ s[6] = ":"
    /\ \A i \in {1, 2, 4, 5, 7, 8} : s[i] \in Digits

\* line is HH:MM:SS, whitespace, text (a text has a visible character)
WellFormed(line) ==
    /\ Len(line) >= 10
    /\ IsStamp(SubSeq(line, 1, 8))
    /\ line[9] \in Whitespace
    /\ \E j \in 10..Len(line) : line[j] \notin Whitespace

\* s from its first to its last visible character
Trimmed(s) ==
    LET visible == {j \in 1..Len(s) : s[j] \notin Whitespace}
    IN  IF visible = {} THEN <<>>
        ELSE SubSeq(s, CHOOSE j \in visible : \A k \in visible : j <= k,
                       CHOOSE j \in visible : \A k \in visible : k <= j)

\* the lines of the file that yield a segment: those well-formed once indentation
\* and trailing whitespace are removed
Yielding == {i \in 1..Len(file.lines) : WellFormed(Trimmed(file.lines[i]))}

\* C9: every well-formed line HH:MM:SS, whitespace, text of a file that was
\* read yields one segment, in line order, whose timestamp is the HH:MM:SS
\* prefix and whose content is the rest of the line without its leading and
\* trailing whitespace.
WellFormedLineParsed ==
    (pc = "parsed" /\ file.readable) =>
        \A i \in 1..Len(file.lines) :
            WellFormed(file.lines[i]) =>
                LET p == 1 + Cardinality({j \in Yielding : j < i})
                IN  /\ i \in Yielding
                    /\ p <= Len(loaded)
                    /\ loaded[p].timestamp = SubSeq(file.lines[i], 1, 8)
                    /\ loaded[p].content =
                           Trimmed(SubSeq(file.lines[i], 9, Len(file.lines[i])))

\* a file with a well-formed line that has several separators and trailing
\* whitespace, after a line that yields nothing, was parsed
WellFormedLineWitness ==
    /\ pc = "parsed"
    /\ file.readable
    /\ Len(file.lines) = 2
    /\ 1 \notin Yielding
    /\ WellFormed(file.lines[2])
    /\ file.lines[2][10] \in Whitespace
    /\ file.lines[2][Len(file.lines[2])] \in Whitespace
    /\ Len(loaded) = 1

\* C10 as stated: a line that does not itself start with HH:MM:SS, whitespace
\* and text yields no segment (the segments are no more than the well-formed
\* lines), and no segment has empty content.
OnlyWellFormedLinesYield ==
    pc = "parsed" =>
        /\ Len(loaded) <= Cardinality({i \in 1..Len(file.lines) : WellFormed(file.lines[i])})
        /\ \A p \in 1..Len(loaded) : loaded[p].content # <<>>

\* C10 amended: a line that, once its leading and trailing whitespace is
\* removed, does not start with HH:MM:SS, whitespace and text yields no
\* segment, and no segment has empty content.
OnlyTrimmedWellFormedLinesYield ==
    pc = "parsed" =>
        /\ Len(loaded) <= Cardinality(Yielding)
        /\ \A p \in 1..Len(loaded) : loaded[p].content # <<>>

\* a readable file with a timestamp that has no text and an indented
\* well-formed line was parsed into one segment
MalformedLineWitness ==
    /\ pc = "parsed"
    /\ file.readable
    /\ Len(file.lines) = 2
    /\ IsStamp(Trimmed(file.lines[1]))
    /\ ~WellFormed(file.lines[2])
    /\ 2 \in Yielding
    /\ Len(loaded) = 1

\* C11: every segment that load_transcript builds has a timestamp of exactly
\* two digits, colon, two digits, colon, two digits.
TimestampsZeroPadded ==
    pc = "parsed" => \A p \in 1..Len(loaded) : IsStamp(loaded[p].timestamp)

\* a file with a line whose timestamp is not zero-padded ("1:34:56 a") and a
\* line that yields a segment was parsed
TimestampsWitness ==
    /\ pc = "parsed"
    /\ Len(file.lines) = 2
    /\ Len(loaded) = 1
    /\ \E i \in 1..2 :
          /\ i \notin Yielding
          /\ Len(Trimmed(file.lines[i])) >= 9
          /\ Trimmed(file.lines[i])[2] = ":"
          /\ Trimmed(file.lines[i])[8] \in Whitespace

\* the (timestamp, content) pairs of the lines that are well-formed once
\* trimmed, in line order
RECURSIVE ExpectedPairs(_)
ExpectedPairs(lines) ==
    IF lines = <<>> THEN <<>>
    ELSE LET t == Trimmed(Head(lines))
         IN  (IF WellFormed(t)
              THEN <<<<SubSeq(t, 1, 8), Trimmed(SubSeq(t, 9, Len(t)))>>>>
              ELSE <<>>) \o ExpectedPairs(Tail(lines))

\* the (video_id, timestamp, content) triples a source contributes: those of
\* its lines when it exists and can be read, none otherwise
ExpectedOfSource(f, video_id) ==
    IF f.exists /\ f.readable
    THEN [i \in 1..Len(ExpectedPairs(f.lines)) |->
             <<video_id, ExpectedPairs(f.lines)[i][1], ExpectedPairs(f.lines)[i][2]>>]
    ELSE <<>>

ExpectedCorpus ==
    ExpectedOfSource(sources.aprilynne, "aprilynne")
    \o ExpectedOfSource(sources.hayden, "hayden")

EmbedCount(l) == Cardinality({i \in 1..Len(l.calls) : l.calls[i] = "embed"})

\* C12: a source that is absent or cannot be read never makes
\* load_all_transcripts fail, and the corpus returned holds exactly the
\* segments of the sources that could be read, aprilynne's before hayden's.
UnreadableSourceSkipped ==
    ingest.op = "load_all" =>
        /\ ingest.raised => (Called(ingest, "embed") /\ ~ingest.encode.ok)
        /\ ~ingest.raised =>
              [i \in 1..Len(ingest.segments) |->
                  <<ingest.segments[i].video_id, ingest.segments[i].timestamp,
                    ingest.segments[i].content>>] = ExpectedCorpus

\* the first source was absent or unreadable and the corpus holds the
\* segments of the second
UnreadableSourceWitness ==
    /\ ingest.op = "load_all"
    /\ ~ingest.raised
    /\ ~(sources.aprilynne.exists /\ sources.aprilynne.readable)
    /\ Len(ingest.segments) = 2
    /\ ingest.segments[1].video_id = "hayden"

\* C13 as stated: every ingestion calls the embedder exactly once, after the
\* sources were parsed, with the contents of all segments in corpus order;
\* with nothing parsed the corpus returned is empty.
EmbedderCalledExactlyOnce ==
    ingest.op = "load_all" =>
        /\ EmbedCount(ingest) = 1
        /\ ingest.calls[Len(ingest.calls)] = "embed"
        /\ ingest.batch = [i \in 1..Len(ExpectedCorpus) |-> ExpectedCorpus[i][3]]
        /\ ExpectedCorpus = <<>> => (~ingest.raised /\ ingest.segments = <<>>)

\* C13 amended: an ingestion that parsed at least one segment calls the
\* embedder exactly once, after every load_transcript call, with the contents
\* of all segments in corpus order; an ingestion that parsed none does not
\* call it and returns the empty corpus.
EmbedderCalledOnceIfSegments ==
    ingest.op = "load_all" =>
        /\ ExpectedCorpus # <<>> =>
              /\ EmbedCount(ingest) = 1
              /\ ingest.calls[Len(ingest.calls)] = "embed"
              /\ ingest.batch = [i \in 1..Len(ExpectedCorpus) |-> ExpectedCorpus[i][3]]
        /\ ExpectedCorpus = <<>> =>
              /\ EmbedCount(ingest) = 0
              /\ ~ingest.raised
              /\ ingest.segments = <<>>

\* both sources yielded segments with different contents and were embedded
\* in one batch
EmbedderBatchWitness ==
    /\ ingest.op = "load_all"
    /\ ~ingest.raised
    /\ ingest.calls = <<"load_transcript", "load_transcript", "embed">>
    /\ Len(ingest.batch) = 4
    /\ ingest.batch[1] # ingest.batch[2]
    /\ ingest.batch[3] # ingest.batch[4]
    /\ ingest.segments[2].video_id # ingest.segments[3].video_id

\* C14: when the batched encode fails, load_all_transcripts raises and returns
\* nothing, __init__ does not complete, and no call is ever served by an
\* advisor built that way: every advisor that serves a call has a corpus
\* whose segments all have an embedding.
EmbeddingFailureIsFatal ==
    /\ (ingest.op = "construct" /\ Called(ingest, "embed") /\ ~ingest.encode.ok) =>
          /\ ingest.raised
          /\ ingest.segments = <<>>
          /\ pc = "failed"
          /\ segments = <<>>
          /\ last.op = "none"
    /\ last.op # "none" =>
          /\ pc = "ready"
          /\ \A i \in 1..Len(segments) : segments[i].embedding # None

\* the batched encode failed during construction
EmbeddingFailureWitness ==
    /\ ingest.op = "construct"
    /\ Called(ingest, "embed")
    /\ ~ingest.encode.ok
    /\ Len(ingest.batch) >= 2
    /\ pc = "failed"

\* C15: after an ingestion that returned, every segment has an embedding and
\* the segment at position i has the i-th vector encode returned.
EmbeddingsByPosition ==
    (ingest.op = "load_all" /\ ~ingest.raised) =>
        \A i \in 1..Len(ingest.segments) :
            /\ ingest.segments[i].embedding # None
            /\ i <= Len(ingest.encode.vecs)
            /\ ingest.segments[i].embedding = ingest.encode.vecs[i]

\* encode returned different vectors for the first two segments
EmbeddingsByPositionWitness ==
    /\ ingest.op = "load_all"
    /\ ~ingest.raised
    /\ Len(ingest.segments) >= 2
    /\ ingest.encode.vecs[1] # ingest.encode.vecs[2]

\* C16: once the advisor is built, no call changes the corpus: its length,
\* the order of its segments and every field of every segment stay as they
\* are, whatever the outcome of the call.
CorpusReadOnly == [][pc = "ready" => segments' = segments]_vars

\* a call ranked a later segment of the corpus first
CorpusReadOnlyWitness ==
    /\ last.op \in {"ask", "find"}
    /\ Len(last.ranked) >= 2
    /\ last.ranked[1] > last.ranked[2]

\* least position >= from at which t occurs in s, 0 if there is none
FirstAt(s, t, from) ==
    LET at == {i \in from..(Len(s) - Len(t) + 1) : SubSeq(s, i, i + Len(t) - 1) = t}
    IN  IF at = {} THEN 0 ELSE CHOOSE i \in at : \A j \in at : i <= j

\* the items occur in s one after the other, from position from on
RECURSIVE OccurInOrder(_, _, _)
OccurInOrder(s, items, from) ==
    IF items = <<>> THEN TRUE
    ELSE LET i == FirstAt(s, Head(items), from)
         IN  i # 0 /\ OccurInOrder(s, Tail(items), i + Len(Head(items)))

\* title, timestamp and content of each segment referred to, in order
RECURSIVE FieldsOf(_)
FieldsOf(refs) ==
    IF refs = <<>> THEN <<>>
    ELSE <<segments[Head(refs)].video_title, segments[Head(refs)].timestamp,
           segments[Head(refs)].content>> \o FieldsOf(Tail(refs))

\* C17: the prompt holds title, timestamp and content of every segment given,
\* in the order given, then the question, then the citation instruction with
\* [source: " ; it holds no timestamp or content of a segment not given, and
\* no title that no given segment has.
PromptHoldsGivenSegments ==
    last.op = "prompt" =>
        LET given == {last.ranked[k] : k \in 1..Len(last.ranked)}
        IN  /\ OccurInOrder(last.prompt,
                            FieldsOf(last.ranked) \o <<last.question, <<"[source: \"">>>>, 1)
            /\ \A i \in (1..Len(segments)) \ given :
                  /\ ~Contains(last.prompt, segments[i].timestamp)
                  /\ ~Contains(last.prompt, segments[i].content)
                  /\ (\A j \in given : segments[j].video_title # segments[i].video_title)
                        => ~Contains(last.prompt, segments[i].video_title)

\* a prompt was built from two segments given against corpus order, a third
\* segment with another title left out
PromptWitness ==
    /\ last.op = "prompt"
    /\ Len(last.ranked) = 2
    /\ last.ranked[1] > last.ranked[2]
    /\ \E i \in 1..Len(segments) :
          \A k \in 1..2 : segments[last.ranked[k]].video_title # segments[i].video_title

\* C18: when encode fails on the question, ask does not return the fallback
\* message and does not call the generator.
EmbeddingFailureNotFallback ==
    (last.op = "ask" /\ Called(last, "embed") /\ last.qv = <<>>) =>
        /\ ~(~last.raised /\ last.value = FallbackMessage)
        /\ ~Called(last, "generate")

\* encode failed on the question of an ask over a non-empty corpus
EmbeddingFailureNotFallbackWitness ==
    /\ last.op = "ask"
    /\ segments # <<>>
    /\ last.calls = <<"embed">>
    /\ last.qv = <<>>

\* C19: when the ranking is not empty and the generator returns, ask returns
\* the generated text as it is, and the user prompt given to the generator is
\* create_context_prompt of the question and the ranked segments.
AskReturnsGeneratedText ==
    (last.op = "ask" /\ Called(last, "generate") /\ last.gen.ok) =>
        /\ ~last.raised
        /\ last.ranked # <<>>
        /\ last.value = last.gen.text
        /\ last.prompt =
              CreateContextPrompt(last.question,
                  [k \in 1..Len(last.ranked) |-> segments[last.ranked[k]]])

\* the generator returned a text for a ranking of several segments
AskReturnsGeneratedTextWitness ==
    /\ last.op = "ask"
    /\ Len(last.ranked) >= 2
    /\ Called(last, "generate")
    /\ last.gen \in [ok : {TRUE}, text : GenTexts]

\* C20: the title of a segment is the table's entry for its source id, or the
\* source id itself when the table has none; segments of one source have the
\* same title.
TitleFromTableOrId ==
    pc = "parsed" =>
        /\ \A p \in 1..Len(loaded) :
              loaded[p].video_title =
                 CASE loaded[p].video_id = "aprilynne" -> <<"Improving Video Introductions">>
                   [] loaded[p].video_id = "hayden" -> <<"YouTube Storytelling Techniques">>
                   [] OTHER -> <<loaded[p].video_id>>
        /\ \A p, q \in 1..Len(loaded) :
              loaded[p].video_id = loaded[q].video_id
                 => loaded[p].video_title = loaded[q].video_title

\* two segments of a source that the table does not know were loaded
TitleWitness ==
    /\ pc = "parsed"
    /\ Len(loaded) = 2
    /\ loaded[1].video_id = "vid1"
    /\ loaded[2].video_id = "vid1"

\* C21: parse_timestamp returns a string of the form HH:MM:SS for every
\* argument: the argument without the whitespace around it when that is of
\* the form HH:MM:SS, and 00:00:00 for every other argument.
ParseTimestampReturnsStamp ==
    last.op = "parse_timestamp" =>
        /\ IsStamp(last.value)
        /\ IF IsStamp(Trimmed(last.question))
           THEN last.value = Trimmed(last.question)
           ELSE last.value = <<"0", "0", ":", "0", "0", ":", "0", "0">>

CallCount(l, who) == Cardinality({i \in 1..Len(l.calls) : l.calls[i] = who})

\* C22: within one ask the embedder is called at most once and the generator
\* at most once, the generator only after encode has returned a vector, and
\* a call that failed is the last call of that ask.
NoRetryWithinAsk ==
    last.op = "ask" =>
        /\ CallCount(last, "embed") <= 1
        /\ CallCount(last, "generate") <= 1
        /\ \A i, j \in 1..Len(last.calls) :
              (last.calls[i] = "embed" /\ last.calls[j] = "generate") => i < j
        /\ Called(last, "generate") => (Called(last, "embed") /\ last.qv \in QVectors)
        /\ (Called(last, "embed") /\ last.qv = <<>>) => last.calls = <<"embed">>
        /\ (Called(last, "generate") /\ ~last.gen.ok) =>
              last.calls[Len(last.calls)] = "generate"

\* the generator failed in an ask and was not called again
NoRetryWitness ==
    /\ last.op = "ask"
    /\ ~last.raised
    /\ last.gen \in [ok : {FALSE}, text : GenErrors]
    /\ last.calls = <<"embed", "generate">>
    /\ last.value = ErrorMessage(last.gen.text)

\* C23: over a corpus that is not empty, every find_relevant_segments call
\* calls encode exactly once, also for a question with an out-of-scope
\* keyword; such a question gets the empty list only when encode returned a
\* vector and every segment with an embedding was scored, and the call ends
\* in the embedder's exception when encode failed.
GateAfterEmbedding ==
    (last.op = "find" /\ segments # <<>>) =>
        /\ last.calls = <<"embed">>
        /\ last.qv = <<>> => (last.raised /\ last.scored = 0)
        /\ last.qv # <<>> => (~last.raised /\ last.scored = Cardinality(Embedded))
        /\ (HasKeyword(last.question) /\ ~last.raised) =>
              /\ last.qv \in QVectors
              /\ last.scored = Cardinality(Embedded)
              /\ last.ranked = <<>>

\* a question with a keyword got the empty list after encode returned and
\* two segments were scored
GateAfterEmbeddingWitness ==
    /\ last.op = "find"
    /\ HasKeyword(last.question)
    /\ last.qv \in QVectors
    /\ last.scored >= 2
    /\ last.ranked = <<>>

\* positions of the lines of f that are well-formed once trimmed; none when
\* f is absent or cannot be read
WellFormedAt(f) ==
    IF f.exists /\ f.readable
    THEN {i \in 1..Len(f.lines) : WellFormed(Trimmed(f.lines[i]))}
    ELSE {}

\* the k-th smallest element of a set of numbers
Nth(S, k) == CHOOSE i \in S : Cardinality({j \in S : j <= i}) = k

\* positions of the segments of the ingested corpus that come from video_id
SegmentsFrom(video_id) ==
    {p \in 1..Len(ingest.segments) : ingest.segments[p].video_id = video_id}

\* the segments from video_id are, one for one and in the same order, the
\* well-formed lines of f
OneSegmentPerLine(f, video_id) ==
    /\ Cardinality(SegmentsFrom(video_id)) = Cardinality(WellFormedAt(f))
    /\ \A k \in 1..Cardinality(WellFormedAt(f)) :
          LET seg  == ingest.segments[Nth(SegmentsFrom(video_id), k)]
              line == Trimmed(f.lines[Nth(WellFormedAt(f), k)])
          IN  /\ seg.timestamp = SubSeq(line, 1, 8)
              /\ seg.content = Trimmed(SubSeq(line, 9, Len(line)))

\* C24: in the corpus load_all_transcripts returns, every segment of
\* aprilynne precedes every segment of hayden, and the segments of a source
\* are its well-formed lines, one segment per line, in file order.
CorpusInIngestionOrder ==
    (ingest.op = "load_all" /\ ~ingest.raised) =>
        /\ \A p \in 1..Len(ingest.segments) :
              ingest.segments[p].video_id \in {"aprilynne", "hayden"}
        /\ \A p \in SegmentsFrom("aprilynne"), q \in SegmentsFrom("hayden") : p < q
        /\ OneSegmentPerLine(sources.aprilynne, "aprilynne")
        /\ OneSegmentPerLine(sources.hayden, "hayden")

\* aprilynne has two well-formed lines whose timestamps go down, hayden a
\* line that yields nothing before one that is well-formed
CorpusOrderWitness ==
    /\ ingest.op = "load_all"
    /\ ~ingest.raised
    /\ Len(ingest.segments) = 3
    /\ ingest.segments[1].timestamp = <<"0", "0", ":", "0", "2", ":", "3", "0">>
    /\ ingest.segments[2].timestamp = <<"0", "0", ":", "0", "1", ":", "1", "5">>
    /\ ingest.segments[2].video_id = "aprilynne"
    /\ ingest.segments[3].video_id = "hayden"
    /\ Len(sources.hayden.lines) = 2
    /\ ~WellFormed(Trimmed(sources.hayden.lines[1]))

\* C25: whenever ask calls the generator, the prompt was built from the
\* segments find_relevant_segments returns for the question with top_k = 5,
\* in that order: at least one and, the corpus allowing, five segments, never
\* more, no corpus position twice.
AskRanksWithTopKFive ==
    (last.op = "ask" /\ Called(last, "generate")) =>
        /\ Len(last.ranked) >= 1
        /\ Len(last.ranked) = Min(5, Cardinality(Embedded))
        /\ \A i, j \in 1..Len(last.ranked) :
              last.ranked[i] = last.ranked[j] => i = j
        /\ last.ranked =
              FindRelevantSegments(segments, last.question, 5,
                                   [ok |-> TRUE, vec |-> last.qv]).result
        /\ last.prompt =
              CreateContextPrompt(last.question,
                  [k \in 1..5 \cap 1..Len(last.ranked) |-> segments[last.ranked[k]]])

\* the generator was called for a corpus of six segments, five of them in
\* the prompt
AskTopKWitness ==
    /\ last.op = "ask"
    /\ Called(last, "generate")
    /\ Len(segments) = 6
    /\ Len(last.ranked) = 5

=============================================================================
